---- MODULE Spec2Model ----
(***************************************************************************)
(* Model of the ingest_document implementations of capybaradb-benchmark:   *)
(* the field resolvers, the chunking loops, the chunk identifiers and the  *)
(* writes to each backend's store.                                         *)
(*                                                                         *)
(* Python strings are sequences of one-character strings, so that split,   *)
(* join, len and the f-string identifiers are computed, not assumed.       *)
(* A document value is a record [kind, val]:                               *)
(*   kind "str"  : val is the string                                       *)
(*   kind "list" : val is the sequence of element values                   *)
(*   kind "dict" : val is the sequence of <<key, value>> items, in         *)
(*                 insertion order (as a Python dict keeps them)           *)
(*   kind "none" : None                                                    *)
(***************************************************************************)
EXTENDS Integers, Sequences, FiniteSets, TLC

VARIABLES
    \* the arguments of ingest_document
    document, searchable_fields, chunk_size, chunk_overlap, separator,
    embedding_model,
    \* control: position in the function, number of the invocation, loop indices
    pc, call, fi, ri, wi,
    \* locals of the chunking loops
    resolved, words, current_chunk, current_length, chunk_index, seeded,
    \* chroma: records collected, the collection, the upsert calls made, and
    \* the token list of every chunk stored
    chunks_data, collection, upsert_calls, chunk_log,
    \* create_chunks of pgvector and pinecone: the loop's start, the chunks built
    \* and the words[start:end] span of each
    start, chunks, spans,
    \* pgvector: the document_chunks table by (doc_id, field_name, chunk_index)
    \* the INSERT statements that succeeded, and the number of INSERT statements
    \* whose psycopg2.Error was caught and printed
    table, insert_log, insert_errors,
    \* pinecone: the tuples collected for index.upsert
    vectors_to_upsert,
    \* mongo: the UpdateOne operations collected for collection.bulk_write
    bulk_operations,
    \* capybaradb: the objects alive, the caller's document object, the local
    \* doc_copy (0 before it is bound), and the documents handed to
    \* collection.insert
    heap, document_ref, doc_copy, inserted

inputVars ==
    <<document, searchable_fields, chunk_size, chunk_overlap, separator, embedding_model>>
loopVars == <<resolved, words, current_chunk, current_length, chunk_index, seeded>>
chromaVars == <<chunks_data, collection, upsert_calls, chunk_log>>
createChunksVars == <<start, chunks, spans>>
pgVars == <<table, insert_log, insert_errors>>
notChroma == <<createChunksVars, pgVars, vectors_to_upsert, bulk_operations>>
capyVars == <<heap, document_ref, doc_copy, inserted>>
vars == <<inputVars, pc, call, fi, ri, wi, loopVars, chromaVars, notChroma, capyVars>>

----------------------------------------------------------------------------
(* Bounds of the model *)

MaxTextLen == 5
MaxChunkSize == 4
MaxOverlap == 3
MaxCalls == 2
\* the length at which the model stops following a create_chunks loop
MaxChunks == 6

----------------------------------------------------------------------------
(* Python strings *)

Max(a, b) == IF a >= b THEN a ELSE b

SPACE == <<" ">>
DOT == <<".">>
STAR == <<"*">>

RECURSIVE Concat(_)
Concat(ss) == IF ss = <<>> THEN <<>> ELSE Head(ss) \o Concat(Tail(ss))

\* sep.join(ws)
RECURSIVE Join(_, _)
Join(ws, sep) ==
    IF ws = <<>> THEN <<>>
    ELSE IF Len(ws) = 1 THEN ws[1]
    ELSE ws[1] \o sep \o Join(Tail(ws), sep)

StartsAt(s, sep, i) ==
    /\ i + Len(sep) - 1 <= Len(s)
    /\ SubSeq(s, i, i + Len(sep) - 1) = sep

\* s.split(sep) for a non-empty sep: cut at every occurrence, left to right
RECURSIVE Split(_, _)
Split(s, sep) ==
    IF \E i \in 1..Len(s) : StartsAt(s, sep, i)
    THEN LET i == CHOOSE k \in 1..Len(s) :
                      /\ StartsAt(s, sep, k)
                      /\ \A j \in 1..(k - 1) : ~StartsAt(s, sep, j)
         IN <<SubSeq(s, 1, i - 1)>> \o Split(SubSeq(s, i + Len(sep), Len(s)), sep)
    ELSE <<s>>

Digit(n) == <<"0", "1", "2", "3", "4", "5", "6", "7", "8", "9">>[n + 1]

\* str(n) for n >= 0
RECURSIVE IntStr(_)
IntStr(n) == IF n < 10 THEN <<Digit(n)>> ELSE IntStr(n \div 10) \o <<Digit(n % 10)>>

\* sum(len(w) for w in ws)
RECURSIVE SumLen(_)
SumLen(ws) == IF ws = <<>> THEN 0 ELSE Len(Head(ws)) + SumLen(Tail(ws))

\* all strings over alphabet of length at most n
RECURSIVE StringsUpTo(_, _)
StringsUpTo(alphabet, n) ==
    IF n = 0 THEN {<<>>}
    ELSE LET shorter == StringsUpTo(alphabet, n - 1)
         IN shorter \cup {Append(s, c) : s \in shorter, c \in alphabet}

----------------------------------------------------------------------------
(* Documents *)

Str(s) == [kind |-> "str", val |-> s]
List(xs) == [kind |-> "list", val |-> xs]
Dict(items) == [kind |-> "dict", val |-> items]
None == [kind |-> "none", val |-> <<>>]

IsStr(v) == v.kind = "str"
IsList(v) == v.kind = "list"
IsDict(v) == v.kind = "dict"

\* key in obj
HasKey(obj, key) == \E i \in 1..Len(obj.val) : obj.val[i][1] = key

\* obj[key]
GetKey(obj, key) ==
    obj.val[CHOOSE i \in 1..Len(obj.val) : obj.val[i][1] = key][2]

\* repr(v) and str(v) of a document value
RECURSIVE PyRepr(_)
PyRepr(v) ==
    IF IsStr(v) THEN <<"'">> \o v.val \o <<"'">>
    ELSE IF IsList(v)
    THEN <<"[">> \o Join([i \in 1..Len(v.val) |-> PyRepr(v.val[i])], <<",", " ">>)
               \o <<"]">>
    ELSE IF IsDict(v)
    THEN <<"{">> \o Join([i \in 1..Len(v.val) |->
                          PyRepr(Str(v.val[i][1])) \o <<":", " ">> \o PyRepr(v.val[i][2])],
                         <<",", " ">>)
               \o <<"}">>
    ELSE <<"N", "o", "n", "e">>

PyStr(v) == IF IsStr(v) THEN v.val ELSE PyRepr(v)

----------------------------------------------------------------------------
(* Objects and references. A dict or list holds references to its members,  *)
(* so two containers can share a member. The heap is the sequence of the    *)
(* objects alive, a reference is an index into it; a dict node holds        *)
(* <<key, reference>> pairs and a list node holds references.               *)

RECURSIVE Alloc(_, _), AllocItems(_, _)

\* the heap h extended with the objects of value v; v itself is the last one
Alloc(v, h) ==
    IF IsList(v)
    THEN LET r == AllocItems(v.val, h)
         IN Append(r.heap, [kind |-> "list", val |-> r.refs])
    ELSE IF IsDict(v)
    THEN LET r == AllocItems([i \in 1..Len(v.val) |-> v.val[i][2]], h)
         IN Append(r.heap, [kind |-> "dict",
                            val |-> [i \in 1..Len(v.val) |-> <<v.val[i][1], r.refs[i]>>]])
    ELSE Append(h, v)

AllocItems(values, h) ==
    IF values = <<>> THEN [heap |-> h, refs |-> <<>>]
    ELSE LET h1 == Alloc(Head(values), h)
             r == AllocItems(Tail(values), h1)
         IN [heap |-> r.heap, refs |-> <<Len(h1)>> \o r.refs]

\* the value reachable from reference ref
RECURSIVE Deref(_, _)
Deref(h, ref) ==
    LET node == h[ref]
    IN IF node.kind = "list"
       THEN List([i \in 1..Len(node.val) |-> Deref(h, node.val[i])])
       ELSE IF node.kind = "dict"
       THEN Dict([i \in 1..Len(node.val) |-> <<node.val[i][1], Deref(h, node.val[i][2])>>])
       ELSE node

K_id == <<"i", "d">>
K_title == <<"t", "i", "t", "l", "e">>
K_body == <<"b", "o", "d", "y">>
K_tags == <<"t", "a", "g", "s">>
K_items == <<"i", "t", "e", "m", "s">>
K_name == <<"n", "a", "m", "e">>
K_note == <<"n", "o", "t", "e">>
K_metadata == <<"m", "e", "t", "a", "d", "a", "t", "a">>
K_author == <<"a", "u", "t", "h", "o", "r">>
K_missing == <<"m", "i", "s", "s", "i", "n", "g">>
K_field == <<"f", "i", "e", "l", "d">>

D1 == <<"d", "1">>

\* {"id": "d1", "title": t}
TitleDoc(t) == Dict(<< <<K_id, Str(D1)>>, <<K_title, Str(t)>> >>)

\* {"id": "d1", "title": "a b c d e"}
ScenarioDoc == TitleDoc(<<"a", " ", "b", " ", "c", " ", "d", " ", "e">>)

\* {"id": "d1", "title": "a a", "body": b}
TitleBodyDoc(b) ==
    Dict(<< <<K_id, Str(D1)>>, <<K_title, Str(<<"a", " ", "a">>)>>, <<K_body, Str(b)>> >>)

\* {"id": "d1", "tags": ["x", "y"]}
TagsDoc == Dict(<< <<K_id, Str(D1)>>, <<K_tags, List(<<Str(<<"x">>), Str(<<"y">>)>>)>> >>)

\* {"id": "d1", "items": [{"name": "x"}, {"name": "y y"}]}
ItemsDoc ==
    Dict(<< <<K_id, Str(D1)>>,
            <<K_items, List(<< Dict(<< <<K_name, Str(<<"x">>)>> >>),
                               Dict(<< <<K_name, Str(<<"y", " ", "y">>)>> >>) >>)>> >>)

\* {"id": "d1", "items": [{"name": "x", "note": "n"}, {"name": "y", "note": "m"}]}
ItemsNotesDoc ==
    Dict(<< <<K_id, Str(D1)>>,
            <<K_items, List(<< Dict(<< <<K_name, Str(<<"x">>)>>, <<K_note, Str(<<"n">>)>> >>),
                               Dict(<< <<K_name, Str(<<"y">>)>>, <<K_note, Str(<<"m">>)>> >>) >>)>> >>)

\* {"id": "d1", "title": "a", "metadata": {"author": "b"}}
MetadataDoc ==
    Dict(<< <<K_id, Str(D1)>>, <<K_title, Str(<<"a">>)>>,
            <<K_metadata, Dict(<< <<K_author, Str(<<"b">>)>> >>)>> >>)

\* {"id": "d1", "metadata": None}
NullMetadataDoc == Dict(<< <<K_id, Str(D1)>>, <<K_metadata, None>> >>)

Texts == StringsUpTo({"a", " "}, MaxTextLen)

Invocation(doc, fields) == [document |-> doc, searchable_fields |-> fields]

\* the (document, searchable_fields) pairs ingest_document is called with
Invocations ==
    {Invocation(TitleDoc(t), <<K_title>>) : t \in Texts}
    \cup {Invocation(TitleBodyDoc(b), <<K_title, K_body>>) : b \in {<<>>, SPACE, <<"a">>}}
    \cup { Invocation(ScenarioDoc, <<K_title>>),
           Invocation(ScenarioDoc, <<K_missing \o DOT \o K_field>>),
           Invocation(TagsDoc, <<K_tags>>),
           Invocation(TagsDoc, <<K_tags \o DOT \o STAR>>),
           Invocation(ItemsDoc, <<K_items \o DOT \o STAR \o DOT \o K_name>>),
           Invocation(ItemsNotesDoc, <<K_items \o DOT \o STAR \o DOT \o K_name>>),
           Invocation(MetadataDoc, <<K_metadata \o DOT \o K_author>>),
           Invocation(NullMetadataDoc, <<K_metadata \o DOT \o K_author>>),
           Invocation(TagsDoc, <<K_tags \o DOT \o STAR \o DOT \o K_name>>),
           Invocation(TagsDoc, <<K_tags \o DOT \o STAR \o DOT \o <<"x">> >>),
           Invocation(TitleDoc(<<"a">>), <<K_title \o DOT \o <<"a">> >>) }

Separators == {SPACE}

\* embedding_model: None (the default) or an object with embed_text
EmbeddingModels == {"None", "model"}

\* what embed_text returns (the test's mock: the same vector for every text)
EMBEDDING == <<1, 2, 3, 4>>

----------------------------------------------------------------------------
(* chroma/implementation.py *)

\* extract_field_value(obj, path, current_path): the (resolved path, text) pairs
RECURSIVE chroma_extract_field_value(_, _, _)
chroma_extract_field_value(obj, path, current_path) ==
    IF path = <<>> THEN <<>>
    ELSE LET current == Head(path)
             remaining == Tail(path)
             dotted == IF current_path # <<>> THEN current_path \o DOT \o current
                       ELSE current
         IN IF current = STAR /\ IsList(obj)
            THEN Concat([i \in 1..Len(obj.val) |->
                     chroma_extract_field_value(
                         obj.val[i], remaining,
                         current_path \o <<"[">> \o IntStr(i - 1) \o <<"]">>)])
            ELSE IF IsDict(obj) /\ remaining = <<>> /\ HasKey(obj, current)
            THEN LET value == GetKey(obj, current)
                 IN IF IsStr(value) THEN << <<dotted, value.val>> >>
                    ELSE IF IsList(value)
                    THEN << <<dotted,
                              Join([i \in 1..Len(value.val) |-> PyStr(value.val[i])],
                                   separator)>> >>
                    ELSE <<>>
            ELSE IF IsDict(obj) /\ HasKey(obj, current)
            THEN chroma_extract_field_value(GetKey(obj, current), remaining, dotted)
            ELSE <<>>

\* document['id']
chroma_document_id == GetKey(document, K_id).val

\* a chunk id numbered on from the records the collection already holds
chroma_chunk_id_counted(field_path, index) ==
    chroma_document_id \o <<"_">> \o field_path
        \o <<"_", "c", "h", "u", "n", "k", "_">>
        \o IntStr(index + Cardinality(DOMAIN collection))

\* f"{document['id']}_{field_path}_chunk_{chunk_index}"
chroma_chunk_id(field_path, index) ==
    chroma_document_id \o <<"_">> \o field_path
        \o <<"_", "c", "h", "u", "n", "k", "_">> \o IntStr(index)

chroma_create_chunk(text, field_path, index) ==
    [id |-> chroma_chunk_id(field_path, index),
     text |-> text,
     metadata |-> [document_id |-> chroma_document_id,
                   field |-> field_path,
                   chunk_index |-> index]]

\* len(word) + (len(separator) if current_chunk else 0)
chroma_word_length(word) ==
    Len(word) + (IF current_chunk # <<>> THEN Len(separator) ELSE 0)

\* the number of trailing words of chunk the overlap loop keeps, looking at
\* chunk[k] with overlap_length already kept
RECURSIVE chroma_overlap_count(_, _, _)
chroma_overlap_count(chunk, k, overlap_length) ==
    IF k = 0 THEN 0
    ELSE LET w_len == Len(chunk[k]) + Len(separator)
         IN IF overlap_length + w_len > chunk_overlap THEN 0
            ELSE 1 + chroma_overlap_count(chunk, k - 1, overlap_length + w_len)

\* the overlap loop breaking one character early (>= for >)
RECURSIVE chroma_overlap_count_early(_, _, _)
chroma_overlap_count_early(chunk, k, overlap_length) ==
    IF k = 0 THEN 0
    ELSE LET w_len == Len(chunk[k]) + Len(separator)
         IN IF overlap_length + w_len >= chunk_overlap THEN 0
            ELSE 1 + chroma_overlap_count_early(chunk, k - 1, overlap_length + w_len)

chroma_overlap_words_early(chunk) ==
    SubSeq(chunk, Len(chunk) - chroma_overlap_count_early(chunk, Len(chunk), 0) + 1,
           Len(chunk))

chroma_overlap_words(chunk) ==
    SubSeq(chunk, Len(chunk) - chroma_overlap_count(chunk, Len(chunk), 0) + 1, Len(chunk))

\* overlap_length after the loop: len(w) + len(separator) for every kept word
chroma_overlap_length(overlap_words) ==
    SumLen(overlap_words) + Len(overlap_words) * Len(separator)

\* the word that closes a chunk appended only when no chunk was closed
chroma_next_chunk_dropped(overlap_words, word) == overlap_words

\* current_chunk = overlap_words; current_chunk.append(word)
chroma_next_chunk(overlap_words, word) == Append(overlap_words, word)

\* collection.upsert(ids, documents, metadatas) on a collection keyed by id:
\* the entries are written in list order
RECURSIVE chroma_upsert(_, _, _, _)
chroma_upsert(coll, ids, documents, metadatas) ==
    IF ids = <<>> THEN coll
    ELSE LET put == [i \in DOMAIN coll \cup {Head(ids)} |->
                        IF i = Head(ids)
                        THEN [text |-> Head(documents), metadata |-> Head(metadatas)]
                        ELSE coll[i]]
         IN chroma_upsert(put, Tail(ids), Tail(documents), Tail(metadatas))

EmptyCollection == [i \in {} |-> <<>>]

\* the arguments of a call, and the state on entry to ingest_document
Start ==
    /\ \E inv \in Invocations :
          /\ document = inv.document
          /\ searchable_fields = inv.searchable_fields
    /\ chunk_overlap \in 0..MaxOverlap
    /\ separator \in Separators
    /\ embedding_model \in EmbeddingModels
    /\ pc = "fields"
    /\ call = 1
    /\ fi = 1
    /\ ri = 1
    /\ wi = 1
    /\ resolved = <<>>
    /\ words = <<>>
    /\ current_chunk = <<>>
    /\ current_length = 0
    /\ chunk_index = 0
    /\ seeded = 0
    /\ chunks_data = <<>>
    /\ collection = EmptyCollection
    /\ upsert_calls = <<>>
    /\ chunk_log = <<>>
    /\ start = 0
    /\ chunks = <<>>
    /\ spans = <<>>
    /\ table = EmptyCollection
    /\ insert_log = <<>>
    /\ insert_errors = 0
    /\ vectors_to_upsert = <<>>
    /\ bulk_operations = <<>>
    /\ heap = Alloc(document, <<>>)
    /\ document_ref = Len(heap)
    /\ doc_copy = 0
    /\ inserted = <<>>

\* a call with a positive chunk_size
Entry ==
    /\ Start
    /\ chunk_size \in 1..MaxChunkSize

\* chunk_size is an unchecked int parameter: zero and negative values reach
\* the word loop like any other
InvalidChunkSizes == {0 - 1, 0}

ChromaInit ==
    /\ Start
    /\ chunk_size \in InvalidChunkSizes \cup (1..MaxChunkSize)

\* for field_pattern in searchable_fields: path = field_pattern.split(".")
ChromaFieldPattern ==
    /\ pc = "fields"
    /\ IF fi <= Len(searchable_fields)
       THEN /\ resolved' = chroma_extract_field_value(
                               document, Split(searchable_fields[fi], DOT), <<>>)
            /\ ri' = 1
            /\ pc' = "values"
       ELSE /\ pc' = "upsert"
            /\ UNCHANGED <<resolved, ri>>
    /\ UNCHANGED <<inputVars, capyVars, notChroma, call, fi, wi, words, current_chunk, current_length,
                   chunk_index, seeded, chromaVars>>

\* for field_path, text in extract_field_value(document, path): words = ...
ChromaFieldValue ==
    /\ pc = "values"
    /\ IF ri <= Len(resolved)
       THEN /\ words' = Split(resolved[ri][2], separator)
            /\ current_chunk' = <<>>
            /\ current_length' = 0
            /\ chunk_index' = 0
            /\ seeded' = 0
            /\ wi' = 1
            /\ pc' = "words"
            /\ UNCHANGED fi
       ELSE /\ fi' = fi + 1
            /\ pc' = "fields"
            /\ UNCHANGED <<words, current_chunk, current_length, chunk_index, seeded, wi>>
    /\ UNCHANGED <<inputVars, capyVars, notChroma, call, ri, resolved, chromaVars>>

\* one pass of "for word in words"
ChromaWord ==
    /\ pc = "words"
    /\ wi <= Len(words)
    /\ LET word == words[wi]
           word_length == chroma_word_length(word)
           field_path == resolved[ri][1]
       IN IF current_length + word_length > chunk_size /\ current_chunk # <<>>
          THEN LET overlap_words == chroma_overlap_words(current_chunk)
               IN /\ chunks_data' = Append(chunks_data,
                        chroma_create_chunk(Join(current_chunk, separator),
                                            field_path, chunk_index))
                  /\ chunk_log' = Append(chunk_log,
                        [field |-> field_path, tokens |-> current_chunk,
                         seeded |-> seeded])
                  /\ chunk_index' = chunk_index + 1
                  /\ seeded' = Len(overlap_words)
                  /\ current_chunk' = chroma_next_chunk(overlap_words, word)
                  /\ current_length' = chroma_overlap_length(overlap_words) + word_length
          ELSE /\ current_chunk' = Append(current_chunk, word)
               /\ current_length' = current_length + word_length
               /\ UNCHANGED <<chunks_data, chunk_log, chunk_index, seeded>>
    /\ wi' = wi + 1
    /\ UNCHANGED <<inputVars, capyVars, notChroma, pc, call, fi, ri, resolved, words, collection, upsert_calls>>

\* after the loop: "Handle last chunk if any content remains"
ChromaLastChunk ==
    /\ pc = "words"
    /\ wi > Len(words)
    /\ IF current_chunk # <<>>
       THEN /\ chunks_data' = Append(chunks_data,
                  chroma_create_chunk(Join(current_chunk, separator),
                                      resolved[ri][1], chunk_index))
            /\ chunk_log' = Append(chunk_log,
                  [field |-> resolved[ri][1], tokens |-> current_chunk,
                   seeded |-> seeded])
       ELSE UNCHANGED <<chunks_data, chunk_log>>
    /\ ri' = ri + 1
    /\ pc' = "values"
    /\ UNCHANGED <<inputVars, capyVars, notChroma, call, fi, wi, resolved, words, current_chunk,
                   current_length, chunk_index, seeded, collection, upsert_calls>>

\* if chunks_data: collection.upsert(ids=..., documents=..., metadatas=...)
ChromaUpsert ==
    /\ pc = "upsert"
    /\ IF chunks_data # <<>>
       THEN LET ids == [i \in 1..Len(chunks_data) |-> chunks_data[i].id]
                documents == [i \in 1..Len(chunks_data) |-> chunks_data[i].text]
                metadatas == [i \in 1..Len(chunks_data) |-> chunks_data[i].metadata]
            IN /\ collection' = chroma_upsert(collection, ids, documents, metadatas)
               /\ upsert_calls' = Append(upsert_calls,
                     [ids |-> ids, documents |-> documents, metadatas |-> metadatas])
       ELSE UNCHANGED <<collection, upsert_calls>>
    /\ pc' = "done"
    /\ UNCHANGED <<inputVars, capyVars, notChroma, call, fi, ri, wi, loopVars, chunks_data, chunk_log>>

\* the caller ingests the same document again with the same arguments
ChromaIngestAgain ==
    /\ pc = "done"
    /\ call < MaxCalls
    /\ call' = call + 1
    /\ pc' = "fields"
    /\ fi' = 1
    /\ ri' = 1
    /\ wi' = 1
    /\ resolved' = <<>>
    /\ words' = <<>>
    /\ current_chunk' = <<>>
    /\ current_length' = 0
    /\ chunk_index' = 0
    /\ seeded' = 0
    /\ chunks_data' = <<>>
    /\ chunk_log' = <<>>
    /\ UNCHANGED <<inputVars, capyVars, notChroma, collection, upsert_calls>>

ChromaNext ==
    \/ ChromaFieldPattern
    \/ ChromaFieldValue
    \/ ChromaWord
    \/ ChromaLastChunk
    \/ ChromaUpsert
    \/ ChromaIngestAgain

SpecChroma == ChromaInit /\ [][ChromaNext]_vars

----------------------------------------------------------------------------
(* Python list indexing *)

Min(a, b) == IF a <= b THEN a ELSE b

\* the position a slice bound i denotes in a list of n elements
PyIndex(n, i) == IF i < 0 THEN Max(i + n, 0) ELSE Min(i, n)

\* ws[a:b]
PySlice(ws, a, b) == SubSeq(ws, PyIndex(Len(ws), a) + 1, PyIndex(Len(ws), b))

\* ws[a:]
PySliceFrom(ws, a) == SubSeq(ws, PyIndex(Len(ws), a) + 1, Len(ws))

----------------------------------------------------------------------------
(* pgvector/implementation.py *)

\* get_field_value(doc, field_path); the loop over parts is pg_walk
RECURSIVE pg_get_field_value(_, _)
RECURSIVE pg_walk(_, _)
pg_walk(current, parts) ==
    IF parts = <<>> THEN current
    ELSE IF Head(parts) = STAR
    THEN IF IsList(current)
         THEN List([i \in 1..Len(current.val) |->
                       pg_get_field_value(current.val[i], Join(Tail(parts), DOT))])
         ELSE None
    ELSE IF IsDict(current) /\ HasKey(current, Head(parts))
    THEN pg_walk(GetKey(current, Head(parts)), Tail(parts))
    ELSE None

pg_get_field_value(doc, field_path) == pg_walk(doc, Split(field_path, DOT))

\* flatten_list(lst): the strings of the nested list, None left out
RECURSIVE pg_flatten_list(_)
pg_flatten_list(lst) ==
    IF lst = <<>> THEN <<>>
    ELSE LET item == Head(lst)
         IN (IF IsList(item) THEN pg_flatten_list(item.val)
             ELSE IF item # None THEN <<PyStr(item)>>
             ELSE <<>>)
            \o pg_flatten_list(Tail(lst))

\* doc_id = document.get("id", ...)
pg_doc_id == GetKey(document, K_id).val

\* the inner while of create_chunks: the end reached from (end, current_len)
RECURSIVE pg_scan_end(_, _)
pg_scan_end(end, current_len) ==
    LET gap == IF current_len > 0 THEN 1 ELSE 0
    IN IF end < Len(words) /\ current_len + Len(words[end + 1]) + gap <= chunk_size
       THEN pg_scan_end(end + 1, current_len + Len(words[end + 1]) + gap)
       ELSE end

\* start = max(start, end - max(1, int(overlap / (len(sep) + len of words[end-1:end]))))
pg_next_start(end) ==
    Max(start,
        end - Max(1, chunk_overlap
                        \div (Len(separator) + SumLen(PySlice(words, end - 1, end)))))

\* the UNIQUE (doc_id, field_name, chunk_index) key of a row
pg_key(field, i) == <<pg_doc_id, field, i>>

\* INSERT ... ON CONFLICT (doc_id, field_name, chunk_index) DO UPDATE
pg_insert(tbl, key, chunk, embedding) ==
    [k \in DOMAIN tbl \cup {key} |->
        IF k = key THEN [chunk_text |-> chunk, embedding |-> embedding] ELSE tbl[k]]

PgInit == Entry

\* for field in searchable_fields: field_value, texts
PgField ==
    /\ pc = "fields"
    /\ IF fi <= Len(searchable_fields)
       THEN LET field_value == pg_get_field_value(document, searchable_fields[fi])
            IN IF field_value = None
               THEN /\ fi' = fi + 1
                    /\ UNCHANGED <<pc, resolved, ri>>
               ELSE /\ resolved' = pg_flatten_list(
                            IF IsList(field_value) THEN field_value.val
                            ELSE <<field_value>>)
                    /\ ri' = 1
                    /\ pc' = "values"
                    /\ UNCHANGED fi
       ELSE /\ pc' = "done"
            /\ UNCHANGED <<fi, resolved, ri>>
    /\ UNCHANGED <<inputVars, capyVars, call, wi, words, current_chunk, current_length, chunk_index,
                   seeded, chromaVars, createChunksVars, pgVars, vectors_to_upsert,
                   bulk_operations>>

\* for text in texts: if not text: continue; entry to create_chunks
PgText ==
    /\ pc = "values"
    /\ IF ri > Len(resolved)
       THEN /\ fi' = fi + 1
            /\ pc' = "fields"
            /\ UNCHANGED <<ri, words, createChunksVars>>
       ELSE IF resolved[ri] = <<>>
       THEN /\ ri' = ri + 1
            /\ UNCHANGED <<fi, pc, words, createChunksVars>>
       ELSE /\ words' = Split(resolved[ri], separator)
            /\ chunks' = <<>>
            /\ spans' = <<>>
            /\ start' = 0
            /\ pc' = "chunking"
            /\ UNCHANGED <<fi, ri>>
    /\ UNCHANGED <<inputVars, capyVars, call, wi, resolved, current_chunk, current_length,
                   chunk_index, seeded, chromaVars, pgVars, vectors_to_upsert,
                   bulk_operations>>

\* one pass of the outer while of create_chunks (or its exit)
PgChunkPass ==
    /\ pc = "chunking"
    /\ start < Len(words) => Len(chunks) < MaxChunks
    /\ IF start < Len(words)
       THEN LET chunk == Join(PySliceFrom(words, start), separator)
                end == pg_scan_end(start, 0)
            IN IF Len(chunk) <= chunk_size
               THEN /\ chunks' = Append(chunks, chunk)
                    /\ spans' = Append(spans, <<start, Len(words)>>)
                    /\ pc' = "insert"
                    /\ wi' = 1
                    /\ UNCHANGED start
               ELSE /\ chunks' = Append(chunks, Join(PySlice(words, start, end), separator))
                    /\ spans' = Append(spans, <<start, end>>)
                    /\ start' = pg_next_start(end)
                    /\ UNCHANGED <<pc, wi>>
       ELSE /\ pc' = "insert"
            /\ wi' = 1
            /\ UNCHANGED createChunksVars
    /\ UNCHANGED <<inputVars, capyVars, call, fi, ri, loopVars, chromaVars, pgVars,
                   vectors_to_upsert, bulk_operations>>

\* for i, chunk in enumerate(chunks): embed and INSERT
PgInsert ==
    /\ pc = "insert"
    /\ IF wi > Len(chunks)
       THEN /\ ri' = ri + 1
            /\ pc' = "values"
            /\ UNCHANGED <<wi, pgVars>>
       ELSE IF embedding_model = "None"
       THEN \* None has no embed_text: AttributeError leaves ingest_document
            /\ pc' = "raised"
            /\ UNCHANGED <<ri, wi, pgVars>>
       ELSE \E database_error \in BOOLEAN :
               IF database_error
               THEN \* except psycopg2.Error as e: print(...), and the loop goes on
                    /\ insert_errors' = insert_errors + 1
                    /\ wi' = wi + 1
                    /\ UNCHANGED <<ri, pc, table, insert_log>>
               ELSE LET key == pg_key(searchable_fields[fi], wi - 1)
                    IN /\ table' = pg_insert(table, key, chunks[wi], EMBEDDING)
                       /\ insert_log' = Append(insert_log,
                                               [key |-> key, chunk_text |-> chunks[wi]])
                       /\ wi' = wi + 1
                       /\ UNCHANGED <<ri, pc, insert_errors>>
    /\ UNCHANGED <<inputVars, capyVars, call, fi, loopVars, chromaVars, createChunksVars,
                   vectors_to_upsert, bulk_operations>>

PgNext ==
    \/ PgField
    \/ PgText
    \/ PgChunkPass
    \/ PgInsert

SpecPg == PgInit /\ [][PgNext]_vars

----------------------------------------------------------------------------
(* pinecone/implementation.py *)

\* value is truthy
PyTruthy(v) == v.kind # "none" /\ v.val # <<>>

\* obj.get(key, default)
DictGet(obj, key, default) == IF HasKey(obj, key) THEN GetKey(obj, key) ELSE default

\* parts.index('*'), 0-based
IndexOfStar(parts) == (CHOOSE i \in 1..Len(parts) :
                          parts[i] = STAR /\ \A j \in 1..(i - 1) : parts[j] # STAR) - 1

\* get_nested_value(obj, path); the loop from parts[k] on is pinecone_walk
RECURSIVE pinecone_get_nested_value(_, _)
RECURSIVE pinecone_walk(_, _, _)
pinecone_walk(current, parts, k) ==
    IF k > Len(parts) THEN current
    ELSE IF parts[k] = STAR /\ IsList(current)
    THEN List([i \in 1..Len(current.val) |->
                  pinecone_get_nested_value(
                      current.val[i],
                      Join(PySliceFrom(parts, IndexOfStar(parts) + 1), DOT))])
    ELSE IF IsDict(current)
    THEN pinecone_walk(DictGet(current, parts[k], Dict(<<>>)), parts, k + 1)
    ELSE None

pinecone_get_nested_value(obj, path) == pinecone_walk(obj, Split(path, DOT), 1)

\* flatten(lst): nested lists opened, every other item kept
RECURSIVE pinecone_flatten(_)
pinecone_flatten(lst) ==
    IF lst = <<>> THEN <<>>
    ELSE (IF IsList(Head(lst)) THEN pinecone_flatten(Head(lst).val) ELSE <<Head(lst)>>)
         \o pinecone_flatten(Tail(lst))

\* chunk_words = chunk_size // (len(separator) + 1)
pinecone_chunk_words == chunk_size \div (Len(separator) + 1)

\* overlap_words = chunk_overlap // (len(separator) + 1)
pinecone_overlap_words == chunk_overlap \div (Len(separator) + 1)

\* doc_id = str(document.get('id', ''))
pinecone_doc_id == PyStr(DictGet(document, K_id, Str(<<>>)))

\* f"{doc_id}_{field_path}_{i}"
pinecone_chunk_id(field_path, i) ==
    pinecone_doc_id \o <<"_">> \o field_path \o <<"_">> \o IntStr(i)

\* batch_size = 100
BATCH_SIZE == 100

\* vectors[i:i + batch_size] for i in range(0, len(vectors), batch_size)
RECURSIVE pinecone_batches(_)
pinecone_batches(vectors) ==
    IF vectors = <<>> THEN <<>>
    ELSE <<PySlice(vectors, 0, BATCH_SIZE)>>
         \o pinecone_batches(PySliceFrom(vectors, BATCH_SIZE))

\* index.upsert(vectors=batch) on an index keyed by id
RECURSIVE pinecone_upsert(_, _)
pinecone_upsert(index, batch) ==
    IF batch = <<>> THEN index
    ELSE LET v == Head(batch)
             put == [i \in DOMAIN index \cup {v[1]} |->
                        IF i = v[1] THEN [values |-> v[2], metadata |-> v[3]]
                        ELSE index[i]]
         IN pinecone_upsert(put, Tail(batch))

PineconeInit == Entry

\* for field_path in searchable_fields: field_values, flatten
PineconeField ==
    /\ pc = "fields"
    /\ IF fi <= Len(searchable_fields)
       THEN LET field_values == pinecone_get_nested_value(document, searchable_fields[fi])
            IN IF ~PyTruthy(field_values)
               THEN /\ fi' = fi + 1
                    /\ UNCHANGED <<pc, resolved, ri>>
               ELSE /\ resolved' = pinecone_flatten(
                            IF IsList(field_values) THEN field_values.val
                            ELSE <<field_values>>)
                    /\ ri' = 1
                    /\ pc' = "values"
                    /\ UNCHANGED fi
       ELSE /\ pc' = "upsert"
            /\ UNCHANGED <<fi, resolved, ri>>
    /\ UNCHANGED <<inputVars, capyVars, call, wi, words, current_chunk, current_length, chunk_index,
                   seeded, chromaVars, createChunksVars, pgVars, vectors_to_upsert,
                   bulk_operations>>

\* for value in field_values: isinstance check; entry to create_chunks(str(value))
PineconeValue ==
    /\ pc = "values"
    /\ IF ri > Len(resolved)
       THEN /\ fi' = fi + 1
            /\ pc' = "fields"
            /\ UNCHANGED <<ri, words, createChunksVars>>
       ELSE IF ~IsStr(resolved[ri])
       THEN /\ ri' = ri + 1
            /\ UNCHANGED <<fi, pc, words, createChunksVars>>
       ELSE IF PyStr(resolved[ri]) = <<>>
       THEN \* if not text: return []
            /\ words' = <<>>
            /\ chunks' = <<>>
            /\ spans' = <<>>
            /\ start' = 0
            /\ pc' = "collect"
            /\ UNCHANGED <<fi, ri>>
       ELSE /\ words' = Split(PyStr(resolved[ri]), separator)
            /\ chunks' = <<>>
            /\ spans' = <<>>
            /\ start' = 0
            /\ pc' = "chunking"
            /\ UNCHANGED <<fi, ri>>
    /\ UNCHANGED <<inputVars, capyVars, call, wi, resolved, current_chunk, current_length,
                   chunk_index, seeded, chromaVars, pgVars, vectors_to_upsert,
                   bulk_operations>>

\* one pass of "while start < len(words)" in create_chunks (or its exit)
PineconeChunkPass ==
    /\ pc = "chunking"
    /\ start < Len(words) => Len(chunks) < MaxChunks
    /\ IF start < Len(words)
       THEN /\ chunks' = Append(chunks,
                   Join(PySlice(words, start, start + pinecone_chunk_words), separator))
            /\ spans' = Append(spans, <<start, start + pinecone_chunk_words>>)
            /\ start' = start + pinecone_chunk_words - pinecone_overlap_words
            /\ UNCHANGED pc
       ELSE /\ pc' = "collect"
            /\ UNCHANGED createChunksVars
    /\ UNCHANGED <<inputVars, capyVars, call, fi, ri, wi, loopVars, chromaVars, pgVars,
                   vectors_to_upsert, bulk_operations>>

\* if embedding_model: for i, chunk in enumerate(chunks): vectors_to_upsert.append
PineconeCollect ==
    /\ pc = "collect"
    /\ IF embedding_model # "None"
       THEN vectors_to_upsert' = vectors_to_upsert \o
               [i \in 1..Len(chunks) |->
                   <<pinecone_chunk_id(searchable_fields[fi], i - 1),
                     EMBEDDING,
                     [document_id |-> pinecone_doc_id,
                      field |-> searchable_fields[fi],
                      chunk_index |-> i - 1,
                      text |-> chunks[i]]>>]
       ELSE UNCHANGED vectors_to_upsert
    /\ ri' = ri + 1
    /\ pc' = "values"
    /\ UNCHANGED <<inputVars, capyVars, call, fi, wi, loopVars, chromaVars, createChunksVars,
                   pgVars, bulk_operations>>

\* if vectors_to_upsert: index.upsert per batch of batch_size
PineconeUpsert ==
    /\ pc = "upsert"
    /\ IF vectors_to_upsert # <<>>
       THEN /\ upsert_calls' = upsert_calls \o pinecone_batches(vectors_to_upsert)
            /\ collection' = pinecone_upsert(collection, vectors_to_upsert)
       ELSE UNCHANGED <<upsert_calls, collection>>
    /\ pc' = "done"
    /\ UNCHANGED <<inputVars, capyVars, call, fi, ri, wi, loopVars, chunks_data, chunk_log,
                   notChroma>>

PineconeNext ==
    \/ PineconeField
    \/ PineconeValue
    \/ PineconeChunkPass
    \/ PineconeCollect
    \/ PineconeUpsert

SpecPinecone == PineconeInit /\ [][PineconeNext]_vars

----------------------------------------------------------------------------
(* mongo/implementation.py *)

\* the first loop of chunk_text over the words ws still to read, with the
\* chunks closed so far, the open chunk cur and its running length n
RECURSIVE mongo_pack(_, _, _, _)
mongo_pack(ws, closed, cur, n) ==
    IF ws = <<>>
    THEN IF cur # <<>> THEN Append(closed, Join(cur, separator)) ELSE closed
    ELSE LET word == Head(ws)
             word_len == Len(word)
         IN IF n + word_len + 1 <= chunk_size
            THEN mongo_pack(Tail(ws), closed, Append(cur, word), n + word_len + 1)
            ELSE mongo_pack(Tail(ws),
                            IF cur # <<>> THEN Append(closed, Join(cur, separator))
                            ELSE closed,
                            <<word>>, word_len + 1)

\* "Add overlapping chunks": the last chunk_overlap words of the chunk before
\* are put in front of every chunk after the first
mongo_overlapped(packed) ==
    IF chunk_overlap > 0 /\ Len(packed) > 1
    THEN [i \in 1..Len(packed) |->
            IF i > 1
            THEN Join(PySliceFrom(Split(packed[i - 1], separator), -chunk_overlap)
                          \o Split(packed[i], separator),
                      separator)
            ELSE packed[i]]
    ELSE packed

\* chunk_text(text)
mongo_chunk_text(text) == mongo_overlapped(mongo_pack(Split(text, separator), <<>>, <<>>, 0))

\* item.values() of the dicts of a list, every other item kept
RECURSIVE mongo_expand(_)
mongo_expand(items) ==
    IF items = <<>> THEN <<>>
    ELSE (IF IsDict(Head(items))
          THEN [i \in 1..Len(Head(items).val) |-> Head(items).val[i][2]]
          ELSE <<Head(items)>>)
         \o mongo_expand(Tail(items))

\* the strings joined with ' ' for a literal part applied to a list
RECURSIVE mongo_list_strings(_, _)
mongo_list_strings(items, part) ==
    IF items = <<>> THEN <<>>
    ELSE (IF ~PyTruthy(Head(items)) THEN <<>>
          ELSE IF IsDict(Head(items)) THEN <<PyStr(DictGet(Head(items), part, Str(<<>>)))>>
          ELSE <<PyStr(Head(items))>>)
         \o mongo_list_strings(Tail(items), part)

\* extract_field_content(obj, field_parts), from the parts still to read
RECURSIVE mongo_extract_field_content(_, _)
mongo_extract_field_content(current, field_parts) ==
    IF field_parts = <<>>
    THEN IF PyTruthy(current) THEN PyStr(current) ELSE <<>>
    ELSE LET part == Head(field_parts)
         IN IF ~PyTruthy(current) THEN <<>>
            ELSE IF part = STAR
            THEN mongo_extract_field_content(
                     IF IsList(current) THEN List(mongo_expand(current.val)) ELSE current,
                     Tail(field_parts))
            ELSE IF IsDict(current)
            THEN mongo_extract_field_content(DictGet(current, part, Str(<<>>)),
                                             Tail(field_parts))
            ELSE IF IsList(current)
            THEN mongo_extract_field_content(
                     Str(Join(mongo_list_strings(current.val, part), SPACE)),
                     Tail(field_parts))
            ELSE mongo_extract_field_content(current, Tail(field_parts))

\* doc_id = document.get("id", str(document))
mongo_doc_id == PyStr(DictGet(document, K_id, Str(PyRepr(document))))

\* f"{field}_chunk_{i+1}"
mongo_chunk_id(field, i) ==
    field \o <<"_", "c", "h", "u", "n", "k", "_">> \o IntStr(i + 1)

\* "chunk_index": i the position in enumerate(chunks), unshifted
mongo_chunk_index_unshifted(i) == i

\* "chunk_index": i + 1 for the chunk at position i of enumerate(chunks)
mongo_chunk_index(i) == i + 1

\* UpdateOne({"doc_id", "chunk_id"}, {"$set": {...}}, upsert=True) for chunk i (0-based)
mongo_update_one(field, i, field_chunks) ==
    [filter |-> <<mongo_doc_id, mongo_chunk_id(field, i)>>,
     set |-> [doc_id |-> mongo_doc_id,
              chunk_id |-> mongo_chunk_id(field, i),
              field |-> field,
              chunk_index |-> mongo_chunk_index(i),
              text |-> field_chunks[i + 1],
              embedding |-> IF embedding_model # "None" THEN EMBEDDING ELSE <<>>,
              metadata |-> [total_chunks |-> Len(field_chunks),
                            chunk_size |-> chunk_size,
                            chunk_overlap |-> chunk_overlap]]]

\* collection.bulk_write(bulk_operations): the upserts applied in order
RECURSIVE mongo_bulk_write(_, _)
mongo_bulk_write(coll, operations) ==
    IF operations = <<>> THEN coll
    ELSE LET op == Head(operations)
             put == [k \in DOMAIN coll \cup {op.filter} |->
                        IF k = op.filter THEN op.set ELSE coll[k]]
         IN mongo_bulk_write(put, Tail(operations))

MongoInit == Entry

\* for field in searchable_fields: content, chunk_text, bulk_operations.extend
MongoField ==
    /\ pc = "fields"
    /\ IF fi <= Len(searchable_fields)
       THEN LET field == searchable_fields[fi]
                content == mongo_extract_field_content(document, Split(field, DOT))
                field_chunks == mongo_chunk_text(content)
            IN /\ IF content = <<>>
                  THEN UNCHANGED <<chunks, bulk_operations>>
                  ELSE /\ chunks' = field_chunks
                       /\ bulk_operations' = bulk_operations \o
                             [i \in 1..Len(field_chunks) |->
                                 mongo_update_one(field, i - 1, field_chunks)]
               /\ fi' = fi + 1
               /\ UNCHANGED pc
       ELSE /\ pc' = "write"
            /\ UNCHANGED <<fi, chunks, bulk_operations>>
    /\ UNCHANGED <<inputVars, capyVars, call, ri, wi, loopVars, chromaVars, start, spans, pgVars,
                   vectors_to_upsert>>

\* if bulk_operations: collection.bulk_write(bulk_operations)
MongoBulkWrite ==
    /\ pc = "write"
    /\ IF bulk_operations # <<>>
       THEN /\ collection' = mongo_bulk_write(collection, bulk_operations)
            /\ upsert_calls' = Append(upsert_calls, bulk_operations)
       ELSE UNCHANGED <<collection, upsert_calls>>
    /\ pc' = "done"
    /\ UNCHANGED <<inputVars, capyVars, call, fi, ri, wi, loopVars, chunks_data, chunk_log,
                   notChroma>>

MongoNext ==
    \/ MongoField
    \/ MongoBulkWrite

SpecMongo == MongoInit /\ [][MongoNext]_vars

----------------------------------------------------------------------------
(* capybaradb: ingest_document of src/capybaradb/implementation.py *)

\* EmbText(text=..., emb_model=embedding_model, max_chunk_size=chunk_size, ...)
EmbText(text) ==
    [kind |-> "EmbText", val |-> text, emb_model |-> embedding_model,
     max_chunk_size |-> chunk_size, chunk_overlap |-> chunk_overlap,
     separators |-> <<separator>>, is_separator_regex |-> FALSE,
     keep_separator |-> TRUE]

\* `part in s` for a str s: part is a substring of s
IsSubstring(part, s) ==
    \E k \in 0..(Len(s) - Len(part)) : SubSeq(s, k + 1, k + Len(part)) = part

\* `part in current`: a key test on a dict, a membership test on a list, a
\* substring test on a str, and a TypeError on anything else
capy_contains(h, current, part) ==
    LET node == h[current]
    IN IF node.kind = "dict"
       THEN IF \E j \in 1..Len(node.val) : node.val[j][1] = part
            THEN "true" ELSE "false"
       ELSE IF node.kind = "list"
       THEN IF \E j \in 1..Len(node.val) :
                  h[node.val[j]].kind = "str" /\ h[node.val[j]].val = part
            THEN "true" ELSE "false"
       ELSE IF node.kind = "str"
       THEN IF IsSubstring(part, node.val) THEN "true" ELSE "false"
       ELSE "raise"

\* current[part] of a dict: the reference stored under the key
capy_item(h, current, part) ==
    LET node == h[current]
        j == CHOOSE j \in 1..Len(node.val) : node.val[j][1] = part
    IN node.val[j][2]

\* current[part] = EmbText(text=current[part], ...): a new object, and the
\* dict's entry now refers to it
capy_set_item(h, current, part) ==
    LET node == h[current]
        text == h[capy_item(h, current, part)].val
    IN Append([h EXCEPT ![current].val =
                  [j \in 1..Len(node.val) |->
                      IF node.val[j][1] = part
                      THEN <<part, Len(h) + 1>> ELSE node.val[j]]],
              EmbText(text))

Returned(h) == [heap |-> h, raised |-> FALSE]
Raised(h) == [heap |-> h, raised |-> TRUE]

\* for i, part in enumerate(parts): ... of process_field, from position i
\* (1-based) with the local `current`; capy_each is the loop
\* "for item in current: process_field(item, remaining_path)"
RECURSIVE capy_loop(_, _, _, _), capy_each(_, _, _)
capy_loop(h, current, parts, i) ==
    IF i > Len(parts) THEN Returned(h)
    ELSE LET part == parts[i]
             found == capy_contains(h, current, part)
         IN IF part = STAR /\ h[current].kind = "list"
            THEN LET remaining_path == Join(SubSeq(parts, i + 1, Len(parts)), DOT)
                 IN IF remaining_path # <<>>
                    THEN capy_each(h, h[current].val, remaining_path)
                    ELSE Returned(h)
            ELSE IF found = "raise" THEN Raised(h)
            ELSE IF found = "false" THEN Returned(h)
            ELSE IF h[current].kind # "dict"
            THEN \* current[part] with a str index on a list or a str: TypeError
                 Raised(h)
            ELSE IF i = Len(parts)
            THEN IF h[capy_item(h, current, part)].kind = "str"
                 THEN Returned(capy_set_item(h, current, part))
                 ELSE Returned(h)
            ELSE capy_loop(h, capy_item(h, current, part), parts, i + 1)

capy_each(h, items, remaining_path) ==
    IF items = <<>> THEN Returned(h)
    ELSE LET r == capy_loop(h, Head(items), Split(remaining_path, DOT), 1)
         IN IF r.raised THEN r
            ELSE capy_each(r.heap, Tail(items), remaining_path)

\* process_field(obj, field_path)
process_field(h, obj, field_path) == capy_loop(h, obj, Split(field_path, DOT), 1)

CapyInit == Entry

\* collection = ...; doc_copy = document.copy(): a new dict with the same
\* entries, i.e. the same references
CapyCopy ==
    /\ pc = "fields"
    /\ doc_copy = 0
    /\ heap' = Append(heap, heap[document_ref])
    /\ doc_copy' = Len(heap')
    /\ UNCHANGED <<inputVars, pc, call, fi, ri, wi, loopVars, chromaVars, notChroma,
                   document_ref, inserted>>

\* for field in searchable_fields: process_field(doc_copy, field)
CapyField ==
    /\ pc = "fields"
    /\ doc_copy # 0
    /\ IF fi <= Len(searchable_fields)
       THEN LET r == process_field(heap, doc_copy, searchable_fields[fi])
            IN /\ heap' = r.heap
               /\ IF r.raised
                  THEN pc' = "raised" /\ UNCHANGED fi
                  ELSE fi' = fi + 1 /\ UNCHANGED pc
       ELSE /\ pc' = "insert"
            /\ UNCHANGED <<fi, heap>>
    /\ UNCHANGED <<inputVars, call, ri, wi, loopVars, chromaVars, notChroma,
                   document_ref, doc_copy, inserted>>

\* collection.insert([doc_copy])
CapyInsert ==
    /\ pc = "insert"
    /\ inserted' = Append(inserted, <<Deref(heap, doc_copy)>>)
    /\ pc' = "done"
    /\ UNCHANGED <<inputVars, call, fi, ri, wi, loopVars, chromaVars, notChroma,
                   heap, document_ref, doc_copy>>

CapyNext ==
    \/ CapyCopy
    \/ CapyField
    \/ CapyInsert

SpecCapy == CapyInit /\ [][CapyNext]_vars

----------------------------------------------------------------------------
(* Properties of the chroma backend *)

Range(f) == {f[i] : i \in DOMAIN f}

\* what the chunk adds to its predecessor: its tokens without the seeded ones
Remainder(c) == SubSeq(c.tokens, c.seeded + 1, Len(c.tokens))

\* the chunks stored for one resolved field, in production order
FieldLog(field_path) == SelectSeq(chunk_log, LAMBDA c : c.field = field_path)

\* next starts with a non-empty suffix of prev
SharesSuffix(prev, next) ==
    \E n \in 1..Min(Len(prev), Len(next)) :
        SubSeq(next, 1, n) = SubSeq(prev, Len(prev) - n + 1, Len(prev))

\* the text is empty or made of separators only
IsBlank(text) == \A w \in Range(Split(text, separator)) : w = <<>>

\* C4: a second ingest_document call with the same arguments passes the same
\* ids and texts to collection.upsert as the first, and the collection after
\* two calls is the collection after one call.
C4_IdempotentReingest ==
    (pc = "done" /\ call >= 2) =>
        /\ Len(upsert_calls) \in {0, call}
        /\ \A k \in 1..Len(upsert_calls) :
              /\ upsert_calls[k].ids = upsert_calls[1].ids
              /\ upsert_calls[k].documents = upsert_calls[1].documents
        /\ upsert_calls # <<>> =>
              collection = chroma_upsert(EmptyCollection, upsert_calls[1].ids,
                                         upsert_calls[1].documents,
                                         upsert_calls[1].metadatas)

C4_Witness ==
    /\ pc = "done"
    /\ call = 2
    /\ Len(upsert_calls) = 2
    /\ Len(upsert_calls[2].ids) >= 2

\* C5: for {"id":"d1","title":"a b c d e"}, fields ["title"], chunk_size 3,
\* chunk_overlap 1 and separator " ", the chunk texts are "a b", "b c", "c d",
\* "d e" with chunk indices 0..3.
C5_ScenarioChunks ==
    ( /\ document = ScenarioDoc
      /\ searchable_fields = <<K_title>>
      /\ chunk_size = 3
      /\ chunk_overlap = 1
      /\ separator = SPACE
      /\ pc = "upsert" ) =>
        /\ [i \in 1..Len(chunks_data) |-> chunks_data[i].text]
              = << <<"a", " ", "b">>, <<"b", " ", "c">>,
                   <<"c", " ", "d">>, <<"d", " ", "e">> >>
        /\ [i \in 1..Len(chunks_data) |-> chunks_data[i].metadata.chunk_index]
              = <<0, 1, 2, 3>>

\* C6: once a resolved field has been chunked, its chunks' token lists without
\* the seeded overlap tokens, concatenated in chunk order, are text.split(separator).
C6_Coverage ==
    (pc = "values" /\ ri > 1) =>
        LET field == resolved[ri - 1]
            log == FieldLog(field[1])
        IN Concat([i \in 1..Len(log) |-> Remainder(log[i])])
               = Split(field[2], separator)

C6_Witness ==
    /\ pc = "values"
    /\ ri > 1
    /\ Len(chunk_log) >= 3
    /\ \E i \in 1..Len(chunk_log) : chunk_log[i].seeded >= 1

C10_BlankFieldNoChunk ==
    (pc = "values" /\ ri > 1 /\ IsBlank(resolved[ri - 1][2])) =>
        \A i \in 1..Len(chunks_data) :
            chunks_data[i].metadata.field # resolved[ri - 1][1]

----------------------------------------------------------------------------
(* Properties of the pgvector backend *)

\* C1: create_chunks terminates with at least one chunk: every pass of the
\* outer while loop that does not break strictly increases start.
C1_StartAdvances ==
    [][(pc = "chunking" /\ pc' = "chunking") => start' > start]_vars

\* C3: within one ingest_document call no two INSERTs carry the same
\* (doc_id, field_name, chunk_index) key, so no chunk overwrites another.
C3_DistinctKeys ==
    \A i, j \in 1..Len(insert_log) :
        i # j => insert_log[i].key # insert_log[j].key

\* C7: in the list create_chunks returns, the tokens of a chunk that are
\* repeated at the start of the next chunk have a joined length of at most overlap.
C7_OverlapBound ==
    pc = "insert" =>
      \A k \in 2..Len(spans) :
        Len(Join(PySlice(words, spans[k][1], spans[k - 1][2]), separator))
            <= chunk_overlap

----------------------------------------------------------------------------
(* Properties of the pinecone backend *)

\* C2: create_chunks terminates: every pass of "while start < len(words)"
\* moves start forward by chunk_words - overlap_words >= 1.
C2_AdvanceAtLeastOne ==
    [][(pc = "chunking" /\ pc' = "chunking") =>
          /\ pinecone_chunk_words - pinecone_overlap_words >= 1
          /\ start' >= start + 1]_vars

----------------------------------------------------------------------------
(* Properties of the mongo backend *)

\* C9: every chunk chunk_text returns that holds more than one token has a
\* character length of at most chunk_size.
C9_SizeBound ==
    \A i \in 1..Len(bulk_operations) :
        LET text == bulk_operations[i].set.text
        IN Len(Split(text, separator)) > 1 => Len(text) <= chunk_size

----------------------------------------------------------------------------
(* Properties of the chroma backend: resolution and parameters *)

\* C11: "tags.*" over {"tags": ["x", "y"]} resolves to one (path, value) pair
\* per list element, in element order, each value being that element's string.
C11_TrailingWildcard ==
    ( /\ document = TagsDoc
      /\ searchable_fields = <<K_tags \o DOT \o STAR>>
      /\ pc = "values" ) =>
        /\ Len(resolved) = 2
        /\ resolved[1][2] = <<"x">>
        /\ resolved[2][2] = <<"y">>

\* C14: a call with chunk_size <= 0 fails before any chunk is built, and
\* collection.upsert is never called in that invocation.
C14_InvalidSizeRejected ==
    chunk_size <= 0 =>
        /\ chunks_data = <<>>
        /\ upsert_calls = <<>>
        /\ pc # "done"

----------------------------------------------------------------------------
(* Properties of the mongo backend: the records written *)

\* the operations collected for one field, in the order they were appended
MongoFieldOps(field) == SelectSeq(bulk_operations, LAMBDA op : op.set.field = field)

SelectedWords(a, k) ==
    UNION { Range(Split(GetKey(e, k).val, separator)) :
              e \in {x \in Range(GetKey(document, a).val) : IsDict(x) /\ HasKey(x, k)} }

\* C17: for a field path a.*.k over a list of mappings the text that is chunked
\* and written is built only from the values stored under key k of the list
\* elements; values under other keys never appear in it.
C17_PathSelectivity ==
    \A i \in 1..Len(bulk_operations) :
        LET op == bulk_operations[i].set
        IN op.field = K_items \o DOT \o STAR \o DOT \o K_name =>
              Range(Split(op.text, separator)) \subseteq SelectedWords(K_items, K_name)

----------------------------------------------------------------------------
(* Properties of the pinecone backend: the tuples collected *)

\* C18: every chunk returned by create_chunks for a resolved string value
\* yields exactly one tuple in vectors_to_upsert, in production order, also
\* when embedding_model is None.
C18_NoChunkDropped ==
    [][ pc = "collect" =>
          /\ Len(vectors_to_upsert') = Len(vectors_to_upsert) + Len(chunks)
          /\ \A i \in 1..Len(chunks) :
                vectors_to_upsert'[Len(vectors_to_upsert) + i][3].text = chunks[i] ]_vars

----------------------------------------------------------------------------
(* Properties of the pgvector backend: failures of the sink *)

\* C15: if the INSERT statement of any chunk raises a database error,
\* ingest_document does not go on: the error leaves the function, so no later
\* chunk is written and the call does not return normally.
C15_SinkFailurePropagates ==
    insert_errors > 0 => pc = "raised"

----------------------------------------------------------------------------
(* Properties of the capybaradb backend *)

\* C12: a resolution miss is never an error: when a segment of the field path
\* is absent or the current value is a string, list or null where a mapping is
\* required (string elements reached through `*` included), process_field
\* returns without raising, so ingest_document is never left by an exception.
C12_MissNeverRaises ==
    pc # "raised"

\* C13: the caller's document is read-only to ingest_document: every value
\* reachable from the `document` argument is the same at every point of the
\* call as before it, for nested and wildcard paths too.
C13_DocumentReadOnly ==
    Deref(heap, document_ref) = document

====
